---- MODULE Spec2Model ----
(***************************************************************************)
(* Model of sora.py: the worker pool, the shared stop flag, the buffered   *)
(* result lists with their flush to the three log files, the progress      *)
(* thread and main().                                                       *)
(*                                                                          *)
(* A step of the model is one lock-protected block (a `with buffer_lock:`   *)
(* body) or one statement outside the lock.  buffer_lock is never held      *)
(* between two steps, so it needs no variable: whatever is done under it is *)
(* one step, whatever is done in two `with` blocks is two steps.            *)
(*                                                                          *)
(* A candidate is modelled by a serial number (1, 2, ...) given when its    *)
(* response arrives, so that two appends of equal code strings stay apart.  *)
(* A line that was in a log file before the run is modelled by 0.           *)
(*                                                                          *)
(* Spec runs the workers, the flusher and main.  progress_thread is added   *)
(* in SpecWithProgress: it reads the flag and the counters and writes only  *)
(* its own local variable.                                                  *)
(***************************************************************************)
EXTENDS Naturals, Sequences, FiniteSets

\* ----------------------------------------------------------------- bounds
\* Number of pool threads (max_workers of the configuration).
NWorkers == 2
\* Number of requests the model lets the pool issue altogether.
MaxReq == 2
\* Number of lines each log file holds before the run.
MaxOld == 1

Workers == 1..NWorkers

\* Status codes a response can carry: the three the code tests for and one
\* that stands for every other code.
Statuses == {200, 401, 403, 404}

VARIABLES
    success_found,      \* threading.Event: TRUE when set
    used_buffer, invalid_buffer, success_buffer,
    stats,              \* [processed, invalid]
    start_sizes,        \* [used, invalid, success]
    used_file, invalid_file, success_file,   \* the lines of the three logs
    delay_ok,           \* whether float(config.get("delay", 1.0)) succeeds
    pc,                 \* position of each worker
    code,               \* the candidate each worker is recording (0: none)
    sc,                 \* the status code each worker received (0: none)
    nreq,               \* requests issued so far
    pc_flusher,         \* position of flusher_thread
    pc_progress,        \* position of progress_thread
    last,               \* progress_thread's local `last`: 0, or 1 for a clock reading
    pc_main,            \* position of main
    yielded,            \* futures as_completed has handed to main's loop
    report,             \* what the final summary printed, <<>> before it
    classified,         \* history: [id, sc] of every submission that got a status code
    failed              \* history: [log, id] of every candidate of a batch whose
                        \* append raised

bufs == <<used_buffer, invalid_buffer, success_buffer>>
files == <<used_file, invalid_file, success_file>>
wvars == <<pc, code, sc, nreq>>
fvars == <<pc_flusher>>
pvars == <<pc_progress, last>>
mvars == <<pc_main, yielded, report, start_sizes>>
vars == <<success_found, bufs, stats, files, delay_ok, wvars, fvars, pvars,
          mvars, classified, failed>>

Range(s) == {s[i] : i \in 1..Len(s)}

\* file_linecount: the number of lines of a file.
file_linecount(f) == Len(f)

OldLines(n) == [i \in 1..n |-> 0]

Init ==
    /\ success_found = FALSE
    /\ used_buffer = <<>> /\ invalid_buffer = <<>> /\ success_buffer = <<>>
    /\ stats = [processed |-> 0, invalid |-> 0]
    /\ start_sizes = [used |-> 0, invalid |-> 0, success |-> 0]
    /\ used_file = OldLines(MaxOld)
    /\ invalid_file = OldLines(MaxOld)
    /\ success_file = OldLines(MaxOld)
    /\ delay_ok \in BOOLEAN
    /\ pc = [w \in Workers |-> "idle"]
    /\ code = [w \in Workers |-> 0]
    /\ sc = [w \in Workers |-> 0]
    /\ nreq = 0
    /\ pc_flusher = "idle"
    /\ pc_progress = "idle"
    /\ last = 0
    /\ pc_main = "init"
    /\ yielded = {}
    /\ report = <<>>
    /\ classified = {}
    /\ failed = {}

\* ------------------------------------------------------------ the Event
\* success_found.set(): the flag's value after the call.
EventToggle(flag) == ~flag

EventSet(flag) == TRUE

\* ------------------------------------------------------ worker, submit_code
\* make_session(); delay = float(config.get("delay", 1.0)), which raises
\* ValueError on a delay that is no number and ends the worker.
WorkerStart(w) ==
    /\ pc[w] = "start"
    /\ pc' = [pc EXCEPT ![w] = IF delay_ok THEN "loop" ELSE "crashed"]
    /\ UNCHANGED <<success_found, bufs, stats, files, delay_ok, code, sc, nreq,
                   fvars, pvars, mvars, classified, failed>>

\* What submit_code returns on each of its paths: "skipped" (the flag is set
\* on entry), "success" (200), "status" (any other status code), "transport"
\* (requests.RequestException).
SubmitResult(path) == path = "success"

\* ok = submit_code(...); if ok: break; else sleep and go back to the loop
\* test.
AfterSubmit(ok) == IF ok THEN "done" ELSE "loop"

\* while not success_found.is_set(): the worker's loop test.  After a
\* passed test the worker generates a candidate and calls submit_code.
WorkerLoopBlind(w) ==
    /\ pc[w] = "loop"
    /\ pc' = [pc EXCEPT ![w] = "submit"]
    /\ UNCHANGED <<success_found, bufs, stats, files, delay_ok, code, sc, nreq,
                   fvars, pvars, mvars, classified, failed>>

WorkerLoop(w) ==
    /\ pc[w] = "loop"
    /\ pc' = [pc EXCEPT ![w] = IF success_found THEN "done" ELSE "submit"]
    /\ UNCHANGED <<success_found, bufs, stats, files, delay_ok, code, sc, nreq,
                   fvars, pvars, mvars, classified, failed>>

\* submit_code's first lines: with the flag set, return False (the worker
\* sleeps and goes back to its loop test); else post.
SubmitEntryBlind(w) ==
    /\ pc[w] = "submit"
    /\ nreq < MaxReq
    /\ nreq' = nreq + 1
    /\ pc' = [pc EXCEPT ![w] = "post"]
    /\ UNCHANGED <<success_found, bufs, stats, files, delay_ok, code, sc,
                   fvars, pvars, mvars, classified, failed>>

SubmitEntryCountsSkip(w) ==
    /\ pc[w] = "submit"
    /\ IF success_found
         THEN /\ pc' = [pc EXCEPT ![w] = "loop"]
              /\ stats' = [stats EXCEPT !.processed = @ + 1]
              /\ UNCHANGED <<code, nreq>>
         ELSE /\ nreq < MaxReq
              /\ nreq' = nreq + 1
              /\ pc' = [pc EXCEPT ![w] = "post"]
              /\ UNCHANGED <<code, stats>>
    /\ UNCHANGED <<success_found, bufs, files, delay_ok, sc,
                   fvars, pvars, mvars, classified, failed>>

SubmitEntry(w) ==
    /\ pc[w] = "submit"
    /\ IF success_found
         THEN /\ pc' = [pc EXCEPT ![w] = AfterSubmit(SubmitResult("skipped"))]
              /\ UNCHANGED <<code, nreq>>
         ELSE /\ nreq < MaxReq
              /\ nreq' = nreq + 1
              /\ pc' = [pc EXCEPT ![w] = "post"]
              /\ UNCHANGED code
    /\ UNCHANGED <<success_found, bufs, stats, files, delay_ok, sc,
                   fvars, pvars, mvars, classified, failed>>

\* The buffer a status code adds the candidate to besides the used buffer:
\* the if / elif chain of submit_code.
ExtraBufferSwapped(s) ==
    IF s = 200 THEN "invalid" ELSE IF s = 403 THEN "success" ELSE "none"

ExtraBuffer(s) ==
    IF s = 200 THEN "success" ELSE IF s = 403 THEN "invalid" ELSE "none"

\* The serial number of the next candidate that gets a status code.
NewId == Cardinality(classified) + 1

\* session.post raises requests.RequestException: submit_code returns False,
\* the worker sleeps and goes back to its loop test.
PostRaisesCounted(w) ==
    /\ pc[w] = "post"
    /\ stats' = [stats EXCEPT !.processed = @ + 1]
    /\ pc' = [pc EXCEPT ![w] = "loop"]
    /\ UNCHANGED <<success_found, bufs, files, delay_ok, code, sc, nreq,
                   fvars, pvars, mvars, classified, failed>>

PostRaises(w) ==
    /\ pc[w] = "post"
    /\ pc' = [pc EXCEPT ![w] = AfterSubmit(SubmitResult("transport"))]
    /\ UNCHANGED <<success_found, bufs, stats, files, delay_ok, code, sc, nreq,
                   fvars, pvars, mvars, classified, failed>>

\* session.post returns status code s, and the first `with buffer_lock:`
\* block of submit_code runs.  A code other than 200, 403 and 401 then
\* returns False: sleep, and back to the loop test.
RecordUsed(w, s) ==
    /\ pc[w] = "post"
    /\ used_buffer' = Append(used_buffer, NewId)
    /\ stats' = [stats EXCEPT !.processed = @ + 1]
    /\ classified' = classified \cup {[id |-> NewId, sc |-> s]}
    /\ IF ExtraBuffer(s) = "none" /\ s # 401
         THEN /\ pc' = [pc EXCEPT ![w] = AfterSubmit(SubmitResult("status"))]
              /\ UNCHANGED <<code, sc>>
         ELSE /\ pc' = [pc EXCEPT ![w] = "classify"]
              /\ sc' = [sc EXCEPT ![w] = s]
              /\ code' = [code EXCEPT ![w] = NewId]
    /\ UNCHANGED <<success_found, invalid_buffer, success_buffer, files,
                   delay_ok, nreq, fvars, pvars, mvars, failed>>

\* if sc == 200: the second locked block, appending to success_buffer.
Classify200SetsFirst(w) ==
    /\ pc[w] = "classify" /\ ExtraBuffer(sc[w]) = "success"
    /\ success_found' = EventSet(success_found)
    /\ pc' = [pc EXCEPT ![w] = "announce"]
    /\ UNCHANGED <<bufs, stats, files, delay_ok, code, sc, nreq, fvars, pvars,
                   mvars, classified, failed>>

Classify200(w) ==
    /\ pc[w] = "classify" /\ ExtraBuffer(sc[w]) = "success"
    /\ success_buffer' = Append(success_buffer, code[w])
    /\ pc' = [pc EXCEPT ![w] = "announce"]
    /\ UNCHANGED <<success_found, used_buffer, invalid_buffer, stats, files,
                   delay_ok, code, sc, nreq, fvars, pvars, mvars, classified,
                   failed>>

\* color_print, success_found.set(), return True; the worker breaks.
Announce200(w) ==
    /\ pc[w] = "announce"
    /\ success_found' = EventSet(success_found)
    /\ code' = [code EXCEPT ![w] = 0]
    /\ sc' = [sc EXCEPT ![w] = 0]
    /\ pc' = [pc EXCEPT ![w] = AfterSubmit(SubmitResult("success"))]
    /\ UNCHANGED <<bufs, stats, files, delay_ok, nreq, fvars, pvars, mvars,
                   classified, failed>>

\* elif sc == 403: the second locked block, appending to invalid_buffer;
\* return False, sleep, back to the loop test.
Classify403Uncounted(w) ==
    /\ pc[w] = "classify" /\ ExtraBuffer(sc[w]) = "invalid"
    /\ invalid_buffer' = Append(invalid_buffer, code[w])
    /\ code' = [code EXCEPT ![w] = 0]
    /\ sc' = [sc EXCEPT ![w] = 0]
    /\ pc' = [pc EXCEPT ![w] = AfterSubmit(SubmitResult("status"))]
    /\ UNCHANGED <<success_found, used_buffer, success_buffer, stats, files,
                   delay_ok, nreq, fvars, pvars, mvars, classified, failed>>

Classify403(w) ==
    /\ pc[w] = "classify" /\ ExtraBuffer(sc[w]) = "invalid"
    /\ invalid_buffer' = Append(invalid_buffer, code[w])
    /\ stats' = [stats EXCEPT !.invalid = @ + 1]
    /\ code' = [code EXCEPT ![w] = 0]
    /\ sc' = [sc EXCEPT ![w] = 0]
    /\ pc' = [pc EXCEPT ![w] = AfterSubmit(SubmitResult("status"))]
    /\ UNCHANGED <<success_found, used_buffer, success_buffer, files,
                   delay_ok, nreq, fvars, pvars, mvars, classified, failed>>

\* elif sc == 401: print, success_found.set(), return False, sleep, back to
\* the loop test.
Classify401(w) ==
    /\ pc[w] = "classify" /\ ExtraBuffer(sc[w]) = "none" /\ sc[w] = 401
    /\ success_found' = EventSet(success_found)
    /\ code' = [code EXCEPT ![w] = 0]
    /\ sc' = [sc EXCEPT ![w] = 0]
    /\ pc' = [pc EXCEPT ![w] = AfterSubmit(SubmitResult("status"))]
    /\ UNCHANGED <<bufs, stats, files, delay_ok, nreq, fvars, pvars, mvars,
                   classified, failed>>

Worker(w) ==
    \/ WorkerStart(w)
    \/ WorkerLoop(w)
    \/ SubmitEntry(w)
    \/ PostRaises(w)
    \/ \E s \in Statuses : RecordUsed(w, s)
    \/ Classify200(w)
    \/ Announce200(w)
    \/ Classify403(w)
    \/ Classify401(w)

\* ------------------------------------------------------------ flush_buffers
\* buf.clear() after the write.
ClearKept(buf) == buf

Clear(buf) == <<>>

\* f.write("\n".join(buf) + "\n") on a file opened for append: one line per
\* candidate, after the lines the file holds.
WrittenAsOneLine(f, buf) == IF buf = <<>> THEN f ELSE Append(f, buf[1])

Written(f, buf) == f \o buf

\* flush_buffers, one step (the whole body is under buffer_lock).  raises
\* names the file whose open / write raises OSError ("none": no error); an
\* empty buffer's file is not opened and cannot raise.  A write that raises
\* leaves the file as it was; the exception leaves the function, so the
\* buffer in hand and the ones after it are neither written nor cleared.
flush_buffers(raises) ==
    LET stopU == raises = "used"
        stopI == stopU \/ raises = "invalid"
        stopS == stopI \/ raises = "success"
    IN  /\ raises = "used" => used_buffer # <<>>
        /\ raises = "invalid" => invalid_buffer # <<>>
        /\ raises = "success" => success_buffer # <<>>
        /\ used_file' = IF stopU THEN used_file ELSE Written(used_file, used_buffer)
        /\ used_buffer' = IF stopU THEN used_buffer ELSE Clear(used_buffer)
        /\ invalid_file' = IF stopI THEN invalid_file
                           ELSE Written(invalid_file, invalid_buffer)
        /\ invalid_buffer' = IF stopI THEN invalid_buffer ELSE Clear(invalid_buffer)
        /\ success_file' = IF stopS THEN success_file
                           ELSE Written(success_file, success_buffer)
        /\ success_buffer' = IF stopS THEN success_buffer ELSE Clear(success_buffer)
        /\ failed' = failed \cup
              {[log |-> raises, id |-> i] :
                 i \in (CASE raises = "used" -> Range(used_buffer)
                          [] raises = "invalid" -> Range(invalid_buffer)
                          [] raises = "success" -> Range(success_buffer)
                          [] OTHER -> {})}

Raising == {"used", "invalid", "success"}

\* ------------------------------------------------------------ flusher_thread
\* while not success_found.is_set():
FlusherCheck ==
    /\ pc_flusher = "check"
    /\ pc_flusher' = IF success_found THEN "final" ELSE "sleep"
    /\ UNCHANGED <<success_found, bufs, stats, files, delay_ok, wvars, pvars,
                   mvars, classified, failed>>

\* time.sleep(5); flush_buffers()
FlusherPeriodic ==
    /\ pc_flusher = "sleep"
    /\ flush_buffers("none")
    /\ pc_flusher' = "check"
    /\ UNCHANGED <<success_found, stats, delay_ok, wvars, pvars, mvars,
                   classified>>

\* The flush after the loop.
FlusherFinal ==
    /\ pc_flusher = "final"
    /\ flush_buffers("none")
    /\ pc_flusher' = "done"
    /\ UNCHANGED <<success_found, stats, delay_ok, wvars, pvars, mvars,
                   classified>>

\* Either flush raises: the exception ends the flusher thread, and only it.
FlusherRaises ==
    /\ pc_flusher \in {"sleep", "final"}
    /\ \E r \in Raising : flush_buffers(r)
    /\ pc_flusher' = "crashed"
    /\ UNCHANGED <<success_found, stats, delay_ok, wvars, pvars, mvars,
                   classified>>

\* ----------------------------------------------------------- progress_thread
\* while not success_found.is_set():
ProgressCheck ==
    /\ pc_progress = "check"
    /\ pc_progress' = IF success_found THEN "done" ELSE "sleep"
    /\ UNCHANGED <<success_found, bufs, stats, files, delay_ok, wvars, fvars,
                   last, mvars, classified, failed>>

ProgressWakeResets ==
    /\ pc_progress = "sleep"
    /\ last' = 1
    /\ stats' = [processed |-> 0, invalid |-> 0]
    /\ pc_progress' = "check"
    /\ UNCHANGED <<success_found, bufs, files, delay_ok, wvars, fvars,
                   mvars, classified, failed>>

\* time.sleep(5); if time.time() - last >= 60: read the counters under the
\* lock, print them, last = time.time().  With last = 0 the test is true; with
\* last a clock reading it depends on the time that went by.
ProgressWake ==
    /\ pc_progress = "sleep"
    /\ \E due \in BOOLEAN :
          IF last = 0 \/ due
            THEN last' = 1
            ELSE UNCHANGED last
    /\ pc_progress' = "check"
    /\ UNCHANGED <<success_found, bufs, stats, files, delay_ok, wvars, fvars,
                   mvars, classified, failed>>

\* ----------------------------------------------------------------------- main
\* The baseline line counts, the two daemon threads, the pool's workers.
MainStart ==
    /\ pc_main = "init"
    /\ start_sizes' = [used |-> file_linecount(used_file),
                       invalid |-> file_linecount(invalid_file),
                       success |-> file_linecount(success_file)]
    /\ pc_flusher' = "check"
    /\ pc_progress' = "check"
    /\ pc' = [w \in Workers |-> "start"]
    /\ pc_main' = "wait"
    /\ UNCHANGED <<success_found, bufs, stats, files, delay_ok, code, sc, nreq,
                   last, yielded, report, classified, failed>>

Finished(w) == pc[w] \in {"done", "crashed"}

\* for f in as_completed(futures): if success_found.is_set(): break
\* The loop also ends when every future has been handed over.
MainYield(w) ==
    /\ pc_main = "wait"
    /\ Finished(w) /\ w \notin yielded
    /\ yielded' = yielded \cup {w}
    /\ pc_main' = IF success_found \/ yielded' = Workers THEN "join" ELSE "wait"
    /\ UNCHANGED <<success_found, bufs, stats, files, delay_ok, wvars, fvars,
                   pvars, report, start_sizes, classified, failed>>

\* except KeyboardInterrupt: print, success_found.set()
MainInterrupt ==
    /\ pc_main = "wait"
    /\ success_found' = EventSet(success_found)
    /\ pc_main' = "join"
    /\ UNCHANGED <<bufs, stats, files, delay_ok, wvars, fvars, pvars, yielded,
                   report, start_sizes, classified, failed>>

\* Leaving the `with ThreadPoolExecutor` block: shutdown(wait=True) returns
\* when every worker thread has ended.
MainJoin ==
    /\ pc_main = "join"
    /\ \A w \in Workers : Finished(w)
    /\ pc_main' = "flush"
    /\ UNCHANGED <<success_found, bufs, stats, files, delay_ok, wvars, fvars,
                   pvars, yielded, report, start_sizes, classified, failed>>

\* flush_buffers() after the pool.
MainFlushSkipped ==
    /\ pc_main = "flush"
    /\ pc_main' = "summary"
    /\ UNCHANGED <<success_found, bufs, stats, files, delay_ok, wvars, fvars,
                   pvars, yielded, report, start_sizes, classified, failed>>

MainFlush ==
    /\ pc_main = "flush"
    /\ flush_buffers("none")
    /\ pc_main' = "summary"
    /\ UNCHANGED <<success_found, stats, delay_ok, wvars, fvars, pvars,
                   yielded, report, start_sizes, classified>>

\* The flush raises: the exception leaves main, nothing more is printed.
MainFlushRaises ==
    /\ pc_main = "flush"
    /\ \E r \in Raising : flush_buffers(r)
    /\ pc_main' = "crashed"
    /\ UNCHANGED <<success_found, stats, delay_ok, wvars, fvars, pvars,
                   yielded, report, start_sizes, classified>>

\* has_real_success = success_lines > start_sizes["success"]
HasRealSuccessByFlag(success_lines, baseline) == success_found

HasRealSuccess(success_lines, baseline) == success_lines > baseline

\* The line counts and the printed summary.
MainSummaryAbsolute ==
    /\ pc_main = "summary"
    /\ report' = [has_real_success |->
                     HasRealSuccess(file_linecount(success_file), start_sizes.success),
                  used_added |-> file_linecount(used_file),
                  invalid_added |-> file_linecount(invalid_file),
                  processed |-> stats.processed,
                  invalid |-> stats.invalid]
    /\ pc_main' = "done"
    /\ UNCHANGED <<success_found, bufs, stats, files, delay_ok, wvars, fvars,
                   pvars, yielded, start_sizes, classified, failed>>

MainSummary ==
    /\ pc_main = "summary"
    /\ report' = [has_real_success |->
                     HasRealSuccess(file_linecount(success_file), start_sizes.success),
                  used_added |-> file_linecount(used_file) - start_sizes.used,
                  invalid_added |-> file_linecount(invalid_file) - start_sizes.invalid,
                  processed |-> stats.processed,
                  invalid |-> stats.invalid]
    /\ pc_main' = "done"
    /\ UNCHANGED <<success_found, bufs, stats, files, delay_ok, wvars, fvars,
                   pvars, yielded, start_sizes, classified, failed>>

\* ------------------------------------------------------------ specifications
Flusher == FlusherCheck \/ FlusherPeriodic \/ FlusherFinal
Progress == ProgressCheck \/ ProgressWake
Main == MainStart \/ (\E w \in Workers : MainYield(w)) \/ MainJoin
           \/ MainFlush \/ MainSummary

Next ==
    \/ \E w \in Workers : Worker(w)
    \/ Flusher
    \/ FlusherRaises
    \/ Main
    \/ MainInterrupt
    \/ MainFlushRaises

Spec == Init /\ [][Next]_vars

\* The same program where main's own flush does not raise, with the
\* scheduling the threads get: every thread that can take a step takes one,
\* every network call and sleep returns.  The operator's interrupt is an
\* event of the environment and is not forced.
LiveNext ==
    \/ \E w \in Workers : Worker(w)
    \/ Flusher
    \/ FlusherRaises
    \/ Main
    \/ MainInterrupt

LiveSpec ==
    /\ Init /\ [][LiveNext]_vars
    /\ \A w \in Workers : WF_vars(Worker(w))
    /\ WF_vars(Flusher)
    /\ WF_vars(Main)

\* All the threads of the program.
SpecWithProgress == Init /\ [][Next \/ Progress]_vars

\* ------------------------------------------------------------------ notions
\* The candidates whose submission received status code c, and all that
\* received one.
Ids(c) == {r.id : r \in {x \in classified : x.sc = c}}
AllIds == {r.id : r \in classified}

\* How often x occurs in sequence q.
Count(q, x) == Cardinality({i \in 1..Len(q) : q[i] = x})

LogOf(l) == CASE l = "used" -> used_file
              [] l = "invalid" -> invalid_file
              [] l = "success" -> success_file

\* The candidates ever appended to a buffer: still in it, or in its log.
InUsed == Range(used_buffer) \cup Range(used_file)
InInvalid == Range(invalid_buffer) \cup Range(invalid_file)
InSuccess == Range(success_buffer) \cup Range(success_file)

BuffersEmpty == used_buffer = <<>> /\ invalid_buffer = <<>> /\ success_buffer = <<>>

\* Every candidate that was appended to a buffer is in that buffer's log.
AllStored ==
    /\ AllIds \subseteq Range(used_file)
    /\ Ids(403) \subseteq Range(invalid_file)
    /\ Ids(200) \subseteq Range(success_file)

AllFinished == \A w \in Workers : Finished(w)
SummaryPrinted == pc_main = "done"

\* The submission of candidate i has returned.
Completed(i) == \A w \in Workers : code[w] # i

C2_NoDuplicateInStorage ==
    \A i \in AllIds :
        /\ Count(used_file \o used_buffer, i) <= 1
        /\ Count(invalid_file \o invalid_buffer, i) <= 1
        /\ Count(success_file \o success_buffer, i) <= 1

\* A batch whose append raised was written by a later flush, and both the
\* flusher's last flush and main's flush have run.
C2_Witness ==
    /\ SummaryPrinted
    /\ failed # {}
    /\ \A f \in failed : f.id \in Range(LogOf(f.log))
    /\ Cardinality(AllIds) >= 2

\* --------------------------------------------------------------------- C3
\* C3 as stated: a completed submission has put its candidate in exactly one
\* buffer: success for 200, invalid for 403, used for any other code.
C3_Original ==
    \A r \in classified :
        Completed(r.id) =>
            /\ (r.id \in InSuccess) <=> (r.sc = 200)
            /\ (r.id \in InInvalid) <=> (r.sc = 403)
            /\ (r.id \in InUsed) <=> (r.sc \notin {200, 403})

\* C3 amended: a completed submission has put its candidate in the used
\* buffer whatever the status code, and besides in the success buffer exactly
\* when the code is 200 and in the invalid buffer exactly when it is 403; so
\* never in both the success and the invalid buffer.
C3_Amended ==
    \A r \in classified :
        Completed(r.id) =>
            /\ r.id \in InUsed
            /\ (r.id \in InSuccess) <=> (r.sc = 200)
            /\ (r.id \in InInvalid) <=> (r.sc = 403)

\* A 403 and a 200 submission have both returned.
C3_Witness ==
    /\ \E i \in Ids(403) : Completed(i)
    /\ \E i \in Ids(200) : Completed(i)

\* --------------------------------------------------------------------- C4
\* C4 as stated: the updates of one submission are one atomic step, so in
\* no state has a submission been counted in `processed` without the rest of
\* its updates: `invalid` counts every 403 counted in `processed`, the invalid
\* buffer has had each of them, the success buffer every 200.
C4_SubmissionAtomic ==
    /\ stats.invalid = Cardinality(Ids(403))
    /\ Ids(403) \subseteq InInvalid
    /\ Ids(200) \subseteq InSuccess

\* --------------------------------------------------------------------- C5
\* C5: a request that ends without a status code (timeout, transport error)
\* leaves the three buffers, both counters and the flag as they are, and the
\* worker goes back to its loop test.
C5_TransportFailureNoEffect ==
    [][\A w \in Workers :
          (pc[w] = "post" /\ pc'[w] # "post" /\ classified' = classified) =>
              /\ UNCHANGED <<bufs, stats, success_found>>
              /\ pc'[w] = "loop"]_vars

\* A request has ended without a status code and its worker is back in the
\* loop, with another submission recorded before.
C5_Witness ==
    /\ nreq > Cardinality(classified) + Cardinality({w \in Workers : pc[w] = "post"})
    /\ stats.processed = 1
    /\ \E w \in Workers : pc[w] = "submit"

\* --------------------------------------------------------------------- C6
\* C6: the summary reports a success exactly when some submission received
\* 200; without one the success log has the lines it had at the start.
C6_SuccessIffA200 ==
    SummaryPrinted =>
        /\ report.has_real_success <=> (Ids(200) # {})
        /\ Ids(200) = {} => success_file = OldLines(start_sizes.success)

\* The flag was set by a 401 and the summary reports no success.
C6_Witness ==
    /\ SummaryPrinted /\ success_found
    /\ Ids(401) # {} /\ ~report.has_real_success

\* --------------------------------------------------------------------- C7
\* C7 as stated: once an append has raised, no worker issues a request any
\* more and no candidate of the failed batch is written to its log.
C7_AppendFailureHalts ==
    [][failed # {} =>
          /\ nreq' = nreq
          /\ \A f \in failed : f.id \notin Range(LogOf(f.log)')]_vars

\* --------------------------------------------------------------------- C8
\* C8: the flag is clear when the run starts and, once set, stays set.
C8_SignalMonotonic ==
    /\ [](pc_main = "init" => ~success_found)
    /\ [][success_found => success_found']_vars

\* Two workers have each set the flag after a 200.
C8_Witness ==
    /\ success_found
    /\ Cardinality(Ids(200)) >= 2
    /\ Cardinality({w \in Workers : pc[w] = "done"}) >= 2

\* --------------------------------------------------------------------- C9
\* C9: once the flag is set, every worker leaves its loop, the pool ends,
\* and main flushes and prints the summary.
C9_WindDown == success_found ~> (AllFinished /\ SummaryPrinted /\ BuffersEmpty)

\* The summary is printed after an interrupt, every worker having ended.
C9_Witness ==
    /\ SummaryPrinted /\ AllFinished /\ success_found
    /\ Ids(200) = {} /\ Ids(401) = {} /\ AllIds # {}

\* -------------------------------------------------------------------- C10
\* C10: when two workers receive 200, the success log has gained one or two
\* lines at the summary, each of the two workers ends, and a worker that
\* finds the flag set at its loop test or at the start of submit_code sends
\* no request.
C10_TwoSuccesses ==
    /\ []((SummaryPrinted /\ Cardinality(Ids(200)) = 2) =>
             file_linecount(success_file) - start_sizes.success \in 1..2)
    /\ \A w \in Workers : (sc[w] = 200) ~> (pc[w] = "done")
    /\ [][\A w \in Workers :
             (success_found /\ pc[w] \in {"loop", "submit"}) =>
                 pc'[w] # "post"]_vars

\* Both workers received 200 and the summary is printed.
C10_Witness ==
    /\ SummaryPrinted
    /\ Cardinality(Ids(200)) = 2
    /\ Cardinality({w \in Workers : pc[w] = "done"}) >= 2
    /\ file_linecount(success_file) - start_sizes.success = 2

\* -------------------------------------------------------------------- C11
\* The submissions that received a status code since the used buffer was
\* last written, and the lines of the three logs together.
Unflushed == AllIds \ Range(used_file)
TotalLines == file_linecount(used_file) + file_linecount(invalid_file)
                 + file_linecount(success_file)

\* C11 as stated: a flush adds to storage, over the three logs, exactly one
\* line for each submission that received a status code since the flush
\* before.
C11_Original ==
    [][files' # files => TotalLines' = TotalLines + Cardinality(Unflushed)]_vars

\* C11 amended: a flush that writes the used log adds exactly one line to it
\* for each submission that received a status code since the used buffer
\* was last written; a flush that does not raise (it leaves the three
\* buffers empty) adds besides one line to
\* the invalid (success) log for each 403 (200) candidate in the invalid
\* (success) buffer, so the three logs together can gain more than M lines.
C11_Amended ==
    /\ [][used_file' # used_file =>
            file_linecount(used_file') =
                file_linecount(used_file) + Cardinality(Unflushed)]_vars
    /\ [][(files' # files /\ BuffersEmpty') =>
               TotalLines' = TotalLines + Cardinality(Unflushed)
                  + Cardinality(Ids(403) \cap Range(invalid_buffer))
                  + Cardinality(Ids(200) \cap Range(success_buffer))]_vars

\* One flush has written two used lines and one invalid line.
C11_Witness ==
    /\ Unflushed = {} /\ BuffersEmpty
    /\ file_linecount(used_file) = start_sizes.used + 2
    /\ file_linecount(invalid_file) = start_sizes.invalid + 1
    /\ pc_flusher = "check" /\ pc_main = "wait"
    /\ failed = {}

\* -------------------------------------------------------------------- C12
\* C12: a submission that receives 200 is counted once in `processed`, has
\* its candidate in the success buffer before it sets the flag, and has set
\* the flag when it returns; a worker's step changes the flag only at the
\* end of a 200 submission or in a 401 submission.
C12_SuccessPath ==
    /\ [](\A i \in Ids(200) :
            Completed(i) => success_found /\ i \in InSuccess /\ i \in InUsed)
    /\ [][Ids(200)' # Ids(200) => stats'.processed = stats.processed + 1]_vars
    /\ [][\A w \in Workers :
             (pc'[w] # pc[w] /\ success_found' # success_found) =>
                 \/ pc[w] = "announce" /\ sc[w] = 200 /\ code[w] \in InSuccess
                 \/ pc[w] = "classify" /\ sc[w] = 401]_vars

\* A 200 submission has returned and set the flag, main still waiting.
C12_Witness ==
    /\ success_found /\ pc_main = "wait" /\ Ids(401) = {}
    /\ \E i \in Ids(200) : Completed(i) /\ i \in Range(success_buffer)

\* -------------------------------------------------------------------- C13
\* C13 as stated: when submit_code is entered with the flag set, what it
\* returns differs from what it returns after a transport failure.
C13_SkippedDistinguishable ==
    [][\A w \in Workers :
          (pc[w] = "submit" /\ success_found /\ pc'[w] # pc[w]) =>
              SubmitResult("skipped") # SubmitResult("transport")]_vars

\* -------------------------------------------------------------------- C14
\* C14 as stated: when main has stopped waiting on the pool, the flag is set
\* before main's flush runs, and so in every state from that flush on.
C14_SignalSetBeforeFinalFlush ==
    pc_main \in {"flush", "summary", "done", "crashed"} => success_found

\* -------------------------------------------------------------------- C15
\* C15: in a run where every request was answered 403 and that the
\* operator's interrupt ended, the summary shows `invalid` equal to
\* `processed`, and the success log has the lines it had at the start.
AllAnswered403 ==
    /\ nreq = Cardinality(classified)
    /\ AllIds = Ids(403)

C15_All403 ==
    (SummaryPrinted /\ success_found /\ AllAnswered403) =>
        /\ report.invalid = report.processed
        /\ report.processed = nreq
        /\ stats.invalid = stats.processed
        /\ file_linecount(success_file) = start_sizes.success
        /\ ~report.has_real_success

\* Two requests, both answered 403, the run ended by the interrupt.
C15_Witness ==
    /\ SummaryPrinted /\ success_found /\ AllAnswered403
    /\ nreq = 2
    /\ report.invalid = 2

\* -------------------------------------------------------------------- C16
\* C16: every step of the progress reporter leaves the three buffers, both
\* counters, the flag and the three logs as they were; it changes only its
\* own position and its own last-reported time.
ProgressStep ==
    /\ pc_progress \in {"check", "sleep"}
    /\ pvars' # pvars

C16_ProgressObservational ==
    [][ProgressStep =>
          /\ UNCHANGED <<success_found, bufs, stats, files>>
          /\ UNCHANGED <<wvars, fvars, mvars, classified, failed>>]_vars

\* The reporter has printed the counters of a run that has processed a
\* candidate, and is back at its loop test.
C16_Witness ==
    /\ last = 1 /\ pc_progress = "check"
    /\ stats.processed > 0
    /\ used_buffer # <<>>

\* -------------------------------------------------------------------- C17
\* How far a worker still is from its end once the flag is set: the longest
\* way it can still go through worker and submit_code.
Rank(p) ==
    CASE p = "post" -> 3
      [] p \in {"start", "submit", "classify"} -> 2
      [] p \in {"loop", "announce"} -> 1
      [] OTHER -> 0

\* C17: a worker issues a request only in a step that finds the flag unset;
\* once the flag is set every worker step brings the worker nearer to its
\* end, so that it completes at most the one submission whose request is
\* already out; and a worker that finds the flag set at its loop test or on
\* entry of submit_code issues no request and leaves buffers and counters
\* as they were.
C17_CooperativeCancel ==
    /\ [][\A w \in Workers :
            (pc'[w] = "post" /\ pc[w] # "post") =>
                ~success_found /\ pc[w] = "submit"]_vars
    /\ [][\A w \in Workers :
            (success_found /\ pc'[w] # pc[w]) =>
                Rank(pc'[w]) < Rank(pc[w])]_vars
    /\ [][\A w \in Workers :
            (success_found /\ pc[w] \in {"loop", "submit"} /\ pc'[w] # pc[w]) =>
                /\ pc'[w] \in {"done", "loop"}
                /\ UNCHANGED <<bufs, stats, nreq, classified>>]_vars

\* The flag is set while one worker's request is out and the other has
\* passed its loop test and is about to enter submit_code.
C17_Witness ==
    /\ success_found
    /\ \E w, v \in Workers : pc[w] = "submit" /\ pc[v] = "post"

\* -------------------------------------------------------------------- C18
\* C18 as stated: in every state `processed` is the number of submissions
\* that received a status code, `invalid` the number of those that received
\* 403, and `invalid` is at most `processed`.
C18_CounterAccounting ==
    /\ stats.processed = Cardinality(AllIds)
    /\ stats.invalid = Cardinality(Ids(403))
    /\ stats.invalid <= stats.processed

\* -------------------------------------------------------------------- C19
\* C19: at the summary of a run in which no append failed, the reported
\* used-log delta is the number of candidates appended to the used buffer
\* during the run and the reported invalid-log delta is the final `invalid`
\* counter; from main's final flush on, nothing is written to a buffer or a
\* log any more.
C19_DeltasExact ==
    /\ []((SummaryPrinted /\ failed = {}) =>
            /\ report.used_added = Cardinality(AllIds)
            /\ report.used_added = stats.processed
            /\ report.invalid_added = stats.invalid
            /\ report.invalid_added = report.invalid
            /\ BuffersEmpty)
    /\ [][(pc_main \in {"summary", "done"} /\ failed = {}) =>
              UNCHANGED <<bufs, files, stats>>]_vars

\* The summary of a run with two status codes, one of them 403, in which no
\* append failed: deltas +2 and +1, no success banner.
C19_Witness ==
    /\ SummaryPrinted /\ failed = {}
    /\ report.used_added = 2
    /\ report.invalid_added = 1
    /\ ~report.has_real_success

====
